---- MODULE Spec2Model ----
(***************************************************************************)
(* A model of flox's `search` / `show` commands                            *)
(* (crates/flox/src/commands/search.rs) and of the flag serialiser         *)
(* (crates/runix/src/command_line/flag.rs).                                *)
(*                                                                         *)
(* A Rust String is a sequence of characters (one-character TLA+ strings); *)
(* a fixed message text that is never inspected is one symbol.             *)
(* Option<T> is a sequence of length at most one: None == <<>>.            *)
(***************************************************************************)
EXTENDS Integers, Sequences, FiniteSets, TLC

VARIABLES
    \* ---- flag.rs: one call of to_args
    flag,                   \* the value implementing Flag (FLAG, FLAG_TYPE, extracted data)
    args,                   \* Option<Vec<String>>: what to_args returned
    \* ---- search.rs: one call of dedup_and_disambiguate_display_items
    display_items,          \* the argument
    deduped_display_items,  \* Option<Vec<DisplayItem>>: what it returned
    \* ---- search.rs: one call of render_show
    show_results,           \* the argument search_results
    show_all,               \* the argument all
    show_ret,               \* Option of what it returned and printed
    \* ---- search.rs: one run of Search::handle or Show::handle
    pc,                     \* position in the handler
    cmd,                    \* "search" | "show"
    opt,                    \* Search.json or Show.all
    search_term,            \* the positional argument
    search_params,          \* Option<SearchParams>
    results,                \* SearchResults.results returned by do_search
    exit_status,            \* Option<ExitStatus>, an ExitStatus being Option<i32>
    stdout,                 \* lines written to standard output
    stderr,                 \* lines written to standard error by the handler
    rendered,               \* the render function returned Ok (written and flushed)
    engine_calls,           \* number of do_search invocations
    ret                     \* Option<Result<()>> of the handler

flagVars == <<flag, args>>
dedupVars == <<display_items, deduped_display_items>>
showVars == <<show_results, show_all, show_ret>>
cmdVars == <<pc, cmd, opt, search_term, search_params, results, exit_status,
             stdout, stderr, rendered, engine_calls, ret>>
vars == <<flagVars, dedupVars, showVars, cmdVars>>

----------------------------------------------------------------------------
(* Bounds of the model *)

MaxListLen == 3
MaxItems == 3
MaxShowResults == 3
MaxTermLen == 5
MaxResults == 2

----------------------------------------------------------------------------
(* Option, strings *)

None == <<>>
Some(x) == <<x>>

SeqsUpTo(S, n) == UNION {[1..k -> S] : k \in 0..n}

\* [String]::join(sep), Vec<String>::join(sep)
RECURSIVE join(_, _)
join(parts, sep) ==
    IF parts = <<>> THEN <<>>
    ELSE IF Len(parts) = 1 THEN parts[1]
    ELSE parts[1] \o sep \o join(Tail(parts), sep)

\* str::split(pat) for a one-character pattern, collected
RECURSIVE split(_, _)
split(s, c) ==
    IF \A i \in 1..Len(s) : s[i] # c THEN <<s>>
    ELSE LET i == CHOOSE k \in 1..Len(s) :
                      s[k] = c /\ \A j \in 1..(k - 1) : s[j] # c
         IN <<SubSeq(s, 1, i - 1)>> \o split(SubSeq(s, i + 1, Len(s)), c)

\* str::replace(from, to) for one-character from and to
replace(s, from, to) == [i \in 1..Len(s) |-> IF s[i] = from THEN to ELSE s[i]]

----------------------------------------------------------------------------
(* flag.rs *)

FlagNames == {<<"-", "-", "f">>}
ArgStrings == {<<>>, <<"a">>, <<"b", " ">>}

\* The values a Flag implementation can be, with what its FLAG_TYPE function
\* extracts from it
Flags ==
    [FLAG : FlagNames, FLAG_TYPE : {"Bool"}, value : BOOLEAN]
    \cup [FLAG : FlagNames, FLAG_TYPE : {"List", "Args", "Custom"},
          value : SeqsUpTo(ArgStrings, MaxListLen)]
    \cup [FLAG : FlagNames, FLAG_TYPE : {"Arg"}, value : ArgStrings]

\* to_args with a List serialised as Args are: one token per element
to_args_list_as_args(self) ==
    CASE self.FLAG_TYPE = "Bool" ->
            IF self.value THEN <<self.FLAG>> ELSE <<>>
      [] self.FLAG_TYPE \in {"List", "Args"} ->
            IF self.value = <<>> THEN <<>> ELSE <<self.FLAG>> \o self.value
      [] self.FLAG_TYPE = "Arg" -> <<self.FLAG, self.value>>
      [] self.FLAG_TYPE = "Custom" -> self.value

\* fn to_args(&self) -> Vec<String>; self.value is what the FLAG_TYPE
\* function returns for self
to_args(self) ==
    CASE self.FLAG_TYPE = "Bool" ->
            IF self.value THEN <<self.FLAG>> ELSE <<>>
      [] self.FLAG_TYPE = "List" ->
            IF self.value = <<>> THEN <<>>
            ELSE <<self.FLAG, join(self.value, <<" ">>)>>
      [] self.FLAG_TYPE = "Arg" -> <<self.FLAG, self.value>>
      [] self.FLAG_TYPE = "Args" ->
            IF self.value = <<>> THEN <<>> ELSE <<self.FLAG>> \o self.value
      [] self.FLAG_TYPE = "Custom" -> self.value

----------------------------------------------------------------------------
(* search.rs: constants and data *)

SEARCH_INPUT_SEPARATOR == <<":">>
DEFAULT_DESCRIPTION == <<"<no description provided>">>

Ok == [tag |-> "Ok", msg |-> "", term |-> <<>>, code |-> 0]
Err(msg, term, code) == [tag |-> "Err", msg |-> msg, term |-> term, code |-> code]

Inputs == {<<"f", "x">>, <<"n">>}
RelPaths == {<<<<"p", "y">>>>, <<<<"l">>, <<"n">>>>}
Packages == {join(r, <<".">>) : r \in RelPaths}
Descriptions == {None, Some(<<"d", "\n", "e">>)}
Versions == {None, Some(<<"1">>), Some(<<"2">>)}
Subtrees == {"catalog", "legacyPackages"}
AbsPaths == {<<<<"c">>, <<"latest">>>>, <<<<"c">>, <<"1">>>>}

\* struct DisplayItem
DisplayItems ==
    [input : Inputs, package : Packages, description : {None, Some(<<"d">>)},
     render_with_input : BOOLEAN]

----------------------------------------------------------------------------
(* search.rs: dedup_and_disambiguate_display_items *)

\* The first loop: package -> set of inputs it is seen in
RECURSIVE build_package_to_inputs(_, _)
build_package_to_inputs(items, m) ==
    IF items = <<>> THEN m
    ELSE LET d == Head(items)
             m2 == IF d.package \in DOMAIN m
                   THEN [m EXCEPT ![d.package] = @ \cup {d.input}]
                   ELSE [p \in DOMAIN m \cup {d.package} |->
                            IF p = d.package THEN {d.input} ELSE m[p]]
         IN build_package_to_inputs(Tail(items), m2)

\* The second loop with the test inputs.len() > 0
mark_render_with_input_any(items, m) ==
    [i \in 1..Len(items) |->
        IF items[i].package \in DOMAIN m
        THEN [items[i] EXCEPT
                 !.render_with_input = Cardinality(m[items[i].package]) > 0]
        ELSE items[i]]

\* The second loop: a package seen in more than one input is rendered with it
mark_render_with_input(items, m) ==
    [i \in 1..Len(items) |->
        IF items[i].package \in DOMAIN m
        THEN [items[i] EXCEPT
                 !.render_with_input = Cardinality(m[items[i].package]) > 1]
        ELSE items[i]]

\* A remove that leaves the set as it is
remove_input_keep_all(inputs, d) == inputs

\* HashSet::remove inside the third loop: what is left of the package's inputs
remove_input(inputs, d) == inputs \ {d.input}

\* The third loop: push an item when its (package, input) pair is still there
RECURSIVE dedup_loop(_, _, _)
dedup_loop(items, m, acc) ==
    IF items = <<>> THEN acc
    ELSE LET d == Head(items)
         IN IF d.package \in DOMAIN m
            THEN LET removed == d.input \in m[d.package]
                     inputs == remove_input(m[d.package], d)
                     acc2 == IF removed THEN Append(acc, d) ELSE acc
                     m2 == IF inputs = {}
                           THEN [p \in DOMAIN m \ {d.package} |-> m[p]]
                           ELSE [m EXCEPT ![d.package] = inputs]
                 IN dedup_loop(Tail(items), m2, acc2)
            ELSE dedup_loop(Tail(items), m, acc)

\* The function with the third loop run on an emptied package_to_inputs
dedup_with_drained_map(items) ==
    LET package_to_inputs == build_package_to_inputs(items, <<>>)
    IN dedup_loop(mark_render_with_input(items, package_to_inputs),
                  <<>>, <<>>)

dedup_and_disambiguate_display_items(items) ==
    LET package_to_inputs == build_package_to_inputs(items, <<>>)
    IN dedup_loop(mark_render_with_input(items, package_to_inputs),
                  package_to_inputs, <<>>)

----------------------------------------------------------------------------
(* search.rs: the flox_rust_sdk types and calls the handlers use *)

\* struct SearchResult, as do_search returns it
SearchResults ==
    [input : Inputs, rel_path : RelPaths, abs_path : AbsPaths,
     description : Descriptions, version : Versions, subtree : Subtrees]

\* Query::from_str: an empty pattern is no query.  The terms of the model hold
\* no "@", so no version range is parsed.
Query_from_str(s, match_name) ==
    IF s = <<>> THEN [ret |-> Err("InvalidQuery", s, 0), query |-> None]
    ELSE [ret |-> Ok, query |-> Some([name |-> s, match_name |-> match_name])]

\* ExitStatus::success and ExitStatus::code: a process killed by a signal
\* has no code
ExitStatuses == {Some(0), Some(1), Some(2), None}
success(status) == status = Some(0)
code_or_minus_one(status) == IF status = None THEN -1 ELSE status[1]

----------------------------------------------------------------------------
(* search.rs: construct_search_params, construct_show_params *)

\* features: what Features::parse() returned (None: it failed)
construct_search_params(term, features) ==
    IF features = None
    THEN [ret |-> Err("Features::parse", <<>>, 0), params |-> None]
    ELSE LET q == Query_from_str(term, features[1] = "match-name")
         IN IF q.ret # Ok THEN [ret |-> q.ret, params |-> None]
            ELSE [ret |-> Ok, params |-> Some([query |-> q.query[1]])]

\* The match with a last arm that takes the last two parts of a longer term
show_term_parts_last_two(term) ==
    LET parts == split(term, SEARCH_INPUT_SEPARATOR[1])
        n == Len(parts)
    IN IF n = 1
       THEN [ret |-> Ok, input_name |-> None, package_name |-> Some(parts[1])]
       ELSE [ret |-> Ok, input_name |-> Some(parts[n - 1]),
             package_name |-> Some(parts[n])]

\* The split of the show term and the match on its parts
show_term_parts(term) ==
    LET parts == split(term, SEARCH_INPUT_SEPARATOR[1])
    IN CASE Len(parts) = 1 ->
              [ret |-> Ok, input_name |-> None, package_name |-> Some(parts[1])]
         [] Len(parts) = 2 ->
              [ret |-> Ok, input_name |-> Some(parts[1]),
               package_name |-> Some(parts[2])]
         [] OTHER ->
              [ret |-> Err("InvalidSearchTerm", term, 0),
               input_name |-> None, package_name |-> None]

construct_show_params(term, features) ==
    LET m == show_term_parts(term)
    IN IF m.ret # Ok THEN [ret |-> m.ret, params |-> None]
       ELSE IF features = None
       THEN [ret |-> Err("Features::parse", <<>>, 0), params |-> None]
       ELSE LET q == Query_from_str(m.package_name[1], features[1] = "match-name")
            IN IF q.ret # Ok THEN [ret |-> q.ret, params |-> None]
               ELSE [ret |-> Ok, params |-> Some([query |-> q.query[1]])]

----------------------------------------------------------------------------
(* search.rs: rendering of search results *)

Max(S) == CHOOSE x \in S : \A y \in S : y <= x

\* {package:<column_width$}
pad(s, width) == s \o [i \in 1..(width - Len(s)) |-> " "]

map_description(description) ==
    IF description = None THEN None
    ELSE Some(replace(description[1], "\n", " "))

to_display_item(r) ==
    [input |-> r.input, package |-> join(r.rel_path, <<".">>),
     description |-> map_description(r.description),
     render_with_input |-> FALSE]

display_len(d) ==
    IF d.render_with_input
    THEN Len(d.input) + Len(d.package) + Len(SEARCH_INPUT_SEPARATOR)
    ELSE Len(d.package)

display_line(d, column_width) ==
    LET package == IF d.render_with_input
                   THEN join(<<d.input, d.package>>, SEARCH_INPUT_SEPARATOR)
                   ELSE d.package
        desc == IF d.description = None THEN DEFAULT_DESCRIPTION
                ELSE d.description[1]
    IN pad(package, column_width) \o <<" ", " ">> \o desc

SHOW_HINT == <<"\nUse flox show {package} to see available versions">>

render_search_results_user_facing(term, search_results) ==
    IF search_results = <<>>
    THEN [ret |-> Err("No packages matched this search term", term, 0),
          out |-> <<>>, err |-> <<>>]
    ELSE LET items == [i \in 1..Len(search_results) |->
                          to_display_item(search_results[i])]
             deduped == dedup_and_disambiguate_display_items(items)
         IN IF deduped = <<>>
            THEN [ret |-> Err("deduplicating search results failed", <<>>, 0),
                  out |-> <<>>, err |-> <<>>]
            ELSE LET column_width ==
                         Max({display_len(deduped[i]) : i \in 1..Len(deduped)})
                 IN [ret |-> Ok,
                     out |-> [i \in 1..Len(deduped) |->
                                 display_line(deduped[i], column_width)],
                     err |-> <<SHOW_HINT>>]

json_string(s) == <<"\"">> \o s \o <<"\"">>
json_option(o) == IF o = None THEN <<"null">> ELSE json_string(o[1])
json_array(parts) == <<"[">> \o join(parts, <<",">>) \o <<"]">>
json_strings(ss) == json_array([i \in 1..Len(ss) |-> json_string(ss[i])])

\* serde_json::to_string of one SearchResult
json_result(r) ==
    <<"{">>
    \o join(<< <<"input:">> \o json_string(r.input),
               <<"absPath:">> \o json_strings(r.abs_path),
               <<"subtree:">> \o json_string(<<r.subtree>>),
               <<"relPath:">> \o json_strings(r.rel_path),
               <<"version:">> \o json_option(r.version),
               <<"description:">> \o json_option(r.description) >>, <<",">>)
    \o <<"}">>

render_search_results_json(search_results) ==
    [ret |-> Ok,
     out |-> <<json_array([i \in 1..Len(search_results) |->
                              json_result(search_results[i])])>>,
     err |-> <<>>]

----------------------------------------------------------------------------
(* search.rs: render_show *)

\* The loop with a break at the first result of another name
collect_while_top(search_results) ==
    LET top == join(search_results[1].rel_path, <<".">>)
        differs == {i \in 1..Len(search_results) :
                       join(search_results[i].rel_path, <<".">>) # top}
        n == IF differs = {} THEN Len(search_results)
             ELSE (CHOOSE i \in differs : \A j \in differs : i <= j) - 1
    IN IF search_results = <<>> THEN <<>> ELSE SubSeq(search_results, 1, n)

\* The loop over search_results: pkg_name is set by the first result, and
\* every result of that name is pushed
RECURSIVE collect_top_loop(_, _, _)
collect_top_loop(search_results, pkg_name, acc) ==
    IF search_results = <<>> THEN [pkg_name |-> pkg_name, results |-> acc]
    ELSE LET package == Head(search_results)
             this_pkg_name == join(package.rel_path, <<".">>)
             pkg_name2 == IF pkg_name = None THEN Some(this_pkg_name)
                          ELSE pkg_name
         IN collect_top_loop(Tail(search_results), pkg_name2,
                IF pkg_name2 = Some(this_pkg_name) THEN Append(acc, package)
                ELSE acc)

collect_top(search_results) == collect_top_loop(search_results, None, <<>>).results

\* The "latest" test without the subtree test
is_latest_any_subtree(sr) ==
    IF sr.abs_path = <<>> THEN FALSE
    ELSE sr.abs_path[Len(sr.abs_path)] = <<"latest">>

\* A "latest" search result of the catalog
is_latest(sr) ==
    sr.subtree = "catalog"
    /\ IF sr.abs_path = <<>> THEN FALSE
       ELSE sr.abs_path[Len(sr.abs_path)] = <<"latest">>

\* The filter_map of the all-versions view
RECURSIVE multiple_versions(_)
multiple_versions(rs) ==
    IF rs = <<>> THEN <<>>
    ELSE LET sr == Head(rs)
             name == join(sr.rel_path, <<".">>)
         IN (IF is_latest(sr) \/ sr.version = None THEN <<>>
             ELSE <<join(<<name, sr.version[1]>>, <<"@">>)>>)
            \o multiple_versions(Tail(rs))

render_show(search_results, all) ==
    LET rs == collect_top(search_results)
    IN IF rs = <<>>
       THEN [ret |-> Err("no packages found", <<>>, 0), out |-> <<>>,
             results |-> rs, items |-> <<>>]
       ELSE LET pkg_name == collect_top_loop(search_results, None, <<>>).pkg_name[1]
                description ==
                    IF rs[1].description = None THEN DEFAULT_DESCRIPTION
                    ELSE replace(rs[1].description[1], "\n", " ")
                items ==
                    IF all THEN multiple_versions(rs)
                    ELSE IF rs[1].version = None
                    THEN <<join(rs[1].rel_path, <<".">>)>>
                    ELSE <<join(<<join(rs[1].rel_path, <<".">>),
                                  rs[1].version[1]>>, <<"@">>)>>
                versions == join(items, <<",", " ">>)
            IN [ret |-> Ok,
                out |-> <<pkg_name \o <<" ", "-", " ">> \o description,
                          <<" ", " ", " ", " ">> \o pkg_name
                              \o <<" ", "-", " ">> \o versions>>,
                results |-> rs, items |-> items]

----------------------------------------------------------------------------
(* States in which a part of the program is not running *)

FlagIdle == flag = None /\ args = None
DedupIdle == display_items = <<>> /\ deduped_display_items = None
ShowIdle == show_results = <<>> /\ show_all = FALSE /\ show_ret = None
CmdIdle ==
    /\ pc = "idle" /\ cmd = "" /\ opt = FALSE /\ search_term = <<>>
    /\ search_params = None /\ results = <<>> /\ exit_status = None
    /\ stdout = <<>> /\ stderr = <<>> /\ rendered = FALSE
    /\ engine_calls = 0 /\ ret = None

----------------------------------------------------------------------------
(* flag.rs: a call of to_args on any flag value *)

InitFlag == flag \in Flags /\ args = None /\ DedupIdle /\ ShowIdle /\ CmdIdle

ToArgs ==
    /\ args = None
    /\ args' = Some(to_args(flag))
    /\ UNCHANGED <<flag, dedupVars, showVars, cmdVars>>

NextFlag == ToArgs

SpecFlag == InitFlag /\ [][NextFlag]_vars

----------------------------------------------------------------------------
(* search.rs: a call of dedup_and_disambiguate_display_items on any items *)

InitDedup ==
    /\ display_items \in SeqsUpTo(DisplayItems, MaxItems)
    /\ deduped_display_items = None
    /\ FlagIdle /\ ShowIdle /\ CmdIdle

Dedup ==
    /\ deduped_display_items = None
    /\ deduped_display_items' =
           Some(dedup_and_disambiguate_display_items(display_items))
    /\ UNCHANGED <<display_items, flagVars, showVars, cmdVars>>

NextDedup == Dedup

SpecDedup == InitDedup /\ [][NextDedup]_vars

----------------------------------------------------------------------------
(* search.rs: a call of render_show on any results *)

\* The results render_show is called on: every path, last segment, version
\* and subtree
ShowCallResults ==
    {r \in SearchResults : r.input = <<"n">> /\ r.description = None}

InitShow ==
    /\ show_results \in SeqsUpTo(ShowCallResults, MaxShowResults)
    /\ show_all \in BOOLEAN
    /\ show_ret = None
    /\ FlagIdle /\ DedupIdle /\ CmdIdle

RenderShow ==
    /\ show_ret = None
    /\ show_ret' = Some(render_show(show_results, show_all))
    /\ UNCHANGED <<show_results, show_all, flagVars, dedupVars, cmdVars>>

NextShow == RenderShow

SpecShow == InitShow /\ [][NextShow]_vars

----------------------------------------------------------------------------
(* search.rs: Search::handle and Show::handle, one run of one command *)

TermChars == {"a", ":"}
SearchStrategies == {"match", "match-name"}

\* What do_search returns in a run of a command: both inputs and both
\* paths; the results of one input have a description
EngineResults ==
    {r \in SearchResults :
        /\ r.abs_path = <<<<"c">>, <<"1">>>>
        /\ r.version = Some(<<"1">>)
        /\ r.subtree = "legacyPackages"
        /\ r.description = None <=> r.input = <<"n">>}

Init ==
    /\ pc = "start"
    /\ cmd \in {"search", "show"}
    /\ opt \in BOOLEAN
    /\ search_term \in SeqsUpTo(TermChars, MaxTermLen)
    /\ search_params = None /\ results = <<>> /\ exit_status = None
    /\ stdout = <<>> /\ stderr = <<>> /\ rendered = FALSE
    /\ engine_calls = 0 /\ ret = None
    /\ FlagIdle /\ DedupIdle /\ ShowIdle

\* The handler returns r
Return(r) == pc' = "done" /\ ret' = Some(r)

\* EnvironmentSelect::to_concrete_environment and the manifest, lockfile and
\* global manifest of the environment: each `?` can return early
SelectEnvironment ==
    /\ pc = "start"
    /\ \/ pc' = "params" /\ UNCHANGED ret
       \/ Return(Err("environment", <<>>, 0))
    /\ UNCHANGED <<cmd, opt, search_term, search_params, results, exit_status,
                   stdout, stderr, rendered, engine_calls>>
    /\ UNCHANGED <<flagVars, dedupVars, showVars>>

\* The handler's construct_*_params call and its `?`
Construct(r) ==
    /\ IF r.ret = Ok
       THEN pc' = "do_search" /\ search_params' = r.params /\ UNCHANGED ret
       ELSE Return(r.ret) /\ UNCHANGED search_params
    /\ UNCHANGED <<cmd, opt, search_term, results, exit_status,
                   stdout, stderr, rendered, engine_calls>>
    /\ UNCHANGED <<flagVars, dedupVars, showVars>>

SearchConstructParams ==
    /\ pc = "params" /\ cmd = "search"
    /\ \E features \in {None} \cup {Some(x) : x \in SearchStrategies} :
           Construct(construct_search_params(search_term, features))

\* Show::handle building the query from the whole term, with no check
ShowConstructParamsUnchecked ==
    /\ pc = "params" /\ cmd = "show"
    /\ Construct([ret |-> Ok,
                  params |-> Some([query |-> [name |-> search_term,
                                              match_name |-> FALSE]])])

ShowConstructParams ==
    /\ pc = "params" /\ cmd = "show"
    /\ \E features \in {None} \cup {Some(x) : x \in SearchStrategies} :
           Construct(construct_show_params(search_term, features))

\* do_search(&search_params)?: the one call of the external engine
DoSearch ==
    /\ pc = "do_search"
    /\ engine_calls' = engine_calls + 1
    /\ \/ /\ Return(Err("do_search", <<>>, 0))
          /\ UNCHANGED <<results, exit_status>>
       \/ /\ results' \in SeqsUpTo(EngineResults, MaxResults)
          /\ exit_status' \in {Some(x) : x \in ExitStatuses}
          /\ pc' = "render"
          /\ UNCHANGED ret
    /\ UNCHANGED <<cmd, opt, search_term, search_params, stdout, stderr, rendered>>
    /\ UNCHANGED <<flagVars, dedupVars, showVars>>

\* A render call and its `?`: what it printed, and where the handler goes
Render(r) ==
    /\ stdout' = stdout \o r.out
    /\ stderr' = stderr \o r.err
    /\ IF r.ret = Ok
       THEN pc' = "exit_status" /\ rendered' = TRUE /\ UNCHANGED ret
       ELSE Return(r.ret) /\ UNCHANGED rendered
    /\ UNCHANGED <<cmd, opt, search_term, search_params, results, exit_status,
                   engine_calls>>
    /\ UNCHANGED <<flagVars, dedupVars, showVars>>

\* The bail! after rendering
ExitStatusCheck ==
    /\ pc = "exit_status"
    /\ IF success(exit_status[1]) THEN Return(Ok)
       ELSE Return(Err("pkgdb exited with status code", <<>>,
                       code_or_minus_one(exit_status[1])))
    /\ UNCHANGED <<cmd, opt, search_term, search_params, results, exit_status,
                   stdout, stderr, rendered, engine_calls>>
    /\ UNCHANGED <<flagVars, dedupVars, showVars>>

\* Search::handle with the exit status checked before rendering
SearchRenderFailFast ==
    /\ pc = "render" /\ cmd = "search"
    /\ IF success(exit_status[1])
       THEN Render(IF opt THEN render_search_results_json(results)
                   ELSE render_search_results_user_facing(search_term, results))
       ELSE /\ Return(Err("pkgdb exited with status code", <<>>,
                          code_or_minus_one(exit_status[1])))
            /\ UNCHANGED <<cmd, opt, search_term, search_params, results,
                           exit_status, stdout, stderr, rendered, engine_calls>>
            /\ UNCHANGED <<flagVars, dedupVars, showVars>>

SearchRender ==
    /\ pc = "render" /\ cmd = "search"
    /\ Render(IF opt THEN render_search_results_json(results)
              ELSE render_search_results_user_facing(search_term, results))

SearchExitStatus == cmd = "search" /\ ExitStatusCheck

\* Show::handle without its check for empty results
ShowRenderNoEmptyCheck ==
    /\ pc = "render" /\ cmd = "show"
    /\ LET r == render_show(results, opt)
       IN Render([ret |-> r.ret, out |-> r.out, err |-> <<>>])

ShowRender ==
    /\ pc = "render" /\ cmd = "show"
    /\ IF results = <<>>
       THEN Render([ret |-> Err("no packages matched this search term",
                                search_term, 0),
                    out |-> <<>>, err |-> <<>>])
       ELSE LET r == render_show(results, opt)
            IN Render([ret |-> r.ret, out |-> r.out, err |-> <<>>])

ShowExitStatus == cmd = "show" /\ ExitStatusCheck

Next ==
    \/ SelectEnvironment
    \/ SearchConstructParams
    \/ ShowConstructParams
    \/ DoSearch
    \/ SearchRender
    \/ SearchExitStatus
    \/ ShowRender
    \/ ShowExitStatus

Spec == Init /\ [][Next]_vars

----------------------------------------------------------------------------
(* Properties of dedup_and_disambiguate_display_items, under SpecDedup *)

Key(d) == <<d.package, d.input>>

\* The places of display_items that hold a (package, input) pair for the
\* first time
FirstOccurrences ==
    {i \in 1..Len(display_items) :
        \A j \in 1..(i - 1) : Key(display_items[j]) # Key(display_items[i])}

\* The k-th of them, in rank order
NthFirstOccurrence(k) ==
    CHOOSE i \in FirstOccurrences :
        Cardinality({j \in FirstOccurrences : j < i}) = k - 1

\* C1: the output is the subsequence of the input made of the first-ranked
\* occurrence of each distinct (package, input) pair, in the input's order:
\* every pair of the input appears exactly once, and the survivor carries the
\* fields of the first occurrence.
C1_DedupFirstOccurrences ==
    deduped_display_items # None =>
        LET out == deduped_display_items[1]
        IN /\ Len(out) = Cardinality(FirstOccurrences)
           /\ \A k \in 1..Len(out) :
                  LET d == display_items[NthFirstOccurrence(k)]
                  IN /\ out[k].package = d.package
                     /\ out[k].input = d.input
                     /\ out[k].description = d.description
           /\ \A i \in 1..Len(display_items) :
                  Cardinality({k \in 1..Len(out) :
                                  Key(out[k]) = Key(display_items[i])}) = 1

\* A pair is repeated after another pair, with another description, and the
\* call has returned two items
C1_Witness ==
    /\ deduped_display_items # None
    /\ Len(display_items) = 3
    /\ Key(display_items[1]) = Key(display_items[3])
    /\ Key(display_items[1]) # Key(display_items[2])
    /\ display_items[1].description # display_items[3].description
    /\ Len(deduped_display_items[1]) = 2

InputsOf(package) ==
    {display_items[i].input :
        i \in {j \in 1..Len(display_items) : display_items[j].package = package}}

\* C2: an output item's render_with_input is true exactly when its package
\* occurs with more than one distinct input in the input sequence, whatever
\* the flag was on entry.
C2_RenderWithInputIffSeveralInputs ==
    deduped_display_items # None =>
        \A k \in 1..Len(deduped_display_items[1]) :
            LET d == deduped_display_items[1][k]
            IN d.render_with_input <=> Cardinality(InputsOf(d.package)) > 1

\* One package comes from two inputs and entered unflagged, another comes
\* from one input and entered flagged; the call has flipped both
C2_Witness ==
    /\ deduped_display_items # None
    /\ Len(display_items) = 3
    /\ display_items[1].package = display_items[2].package
    /\ display_items[1].input # display_items[2].input
    /\ ~display_items[1].render_with_input
    /\ display_items[3].package # display_items[1].package
    /\ display_items[3].render_with_input
    /\ Len(deduped_display_items[1]) = 3
    /\ deduped_display_items[1][1].render_with_input
    /\ ~deduped_display_items[1][3].render_with_input

----------------------------------------------------------------------------
(* Properties of render_show, under SpecShow *)

Label(sr) == join(sr.rel_path, <<".">>)

\* The length of the longest prefix of show_results whose labels all equal
\* the label of the first result
TopPrefixLen ==
    CHOOSE n \in 0..Len(show_results) :
        /\ \A i \in 1..n : Label(show_results[i]) = Label(show_results[1])
        /\ n < Len(show_results) =>
               Label(show_results[n + 1]) # Label(show_results[1])

\* C3 as stated: render_show collects only the contiguous prefix run of
\* results whose label equals the label of the first result, so a result
\* after the first other label is never collected.
C3_CollectsPrefixRunOnly ==
    show_ret # None =>
        show_ret[1].results = SubSeq(show_results, 1, TopPrefixLen)

\* C3 as amended: render_show collects every result of the whole sequence
\* whose label equals the label of the first result, in rank order, also
\* the ones that sit after a result with another label.
C3_CollectsAllOfTopLabel ==
    show_ret # None =>
        LET IsTop(sr) == Label(sr) = Label(show_results[1])
        IN show_ret[1].results = SelectSeq(show_results, IsTop)

\* The labels are [top, other, top], and the call has collected two results
C3_Witness ==
    /\ show_ret # None
    /\ Len(show_results) = 3
    /\ Label(show_results[2]) # Label(show_results[1])
    /\ Label(show_results[3]) = Label(show_results[1])
    /\ show_ret[1].results = <<show_results[1], show_results[3]>>

\* C10: in the all-versions view an entry of the collected run whose subtree
\* is the catalog and whose last abs_path segment is "latest" is left out
\* even when it has a version; every other collected entry with a version
\* gives exactly one "label@version", in rank order; an entry without a
\* version gives nothing; the second line printed is their join by ", ".
C10_AllVersionsSkipsCatalogLatest ==
    (show_ret # None /\ show_all /\ show_ret[1].ret = Ok) =>
        LET Latest(sr) ==
                /\ sr.subtree = "catalog"
                /\ sr.abs_path # <<>>
                /\ sr.abs_path[Len(sr.abs_path)] = <<"latest">>
            Shown(sr) == ~Latest(sr) /\ sr.version # None
            kept == SelectSeq(show_ret[1].results, Shown)
            items == [i \in 1..Len(kept) |->
                         Label(kept[i]) \o <<"@">> \o kept[i].version[1]]
        IN /\ show_ret[1].items = items
           /\ show_ret[1].out[2] =
                  <<" ", " ", " ", " ">> \o Label(show_results[1])
                      \o <<" ", "-", " ">> \o join(items, <<",", " ">>)

\* The run holds a catalog "latest" entry with a version, a "latest" entry
\* of another subtree with another version and an entry without a version,
\* and the all-versions call has listed only the second
C10_Witness ==
    /\ show_ret # None /\ show_all
    /\ Len(show_results) = 3
    /\ show_ret[1].results = show_results
    /\ show_results[1].subtree = "catalog"
    /\ show_results[1].abs_path[2] = <<"latest">>
    /\ show_results[1].version = Some(<<"1">>)
    /\ show_results[2].subtree = "legacyPackages"
    /\ show_results[2].abs_path[2] = <<"latest">>
    /\ show_results[2].version = Some(<<"2">>)
    /\ show_results[3].version = None
    /\ Len(show_ret[1].items) = 1

----------------------------------------------------------------------------
(* Properties of to_args, under SpecFlag *)

RECURSIVE SumLen(_)
SumLen(ss) == IF ss = <<>> THEN 0 ELSE Len(Head(ss)) + SumLen(Tail(ss))

\* t is the elements of list, in order, with one space between neighbours
IsSpaceJoined(t, list) ==
    /\ Len(t) = SumLen(list) + Len(list) - 1
    /\ \A i \in 1..Len(list) :
           LET start == SumLen(SubSeq(list, 1, i - 1)) + (i - 1)
           IN /\ SubSeq(t, start + 1, start + Len(list[i])) = list[i]
              /\ i < Len(list) => t[start + Len(list[i]) + 1] = " "

\* What to_args returned, by the kind of the flag
C9_Emission ==
    args # None =>
        LET a == args[1]
            v == flag.value
        IN CASE flag.FLAG_TYPE = "Bool" ->
                   IF v THEN a = <<flag.FLAG>> ELSE a = <<>>
             [] flag.FLAG_TYPE = "List" ->
                   IF v = <<>> THEN a = <<>>
                   ELSE /\ Len(a) = 2
                        /\ a[1] = flag.FLAG
                        /\ IsSpaceJoined(a[2], v)
             [] flag.FLAG_TYPE = "Arg" ->
                   Len(a) = 2 /\ a[1] = flag.FLAG /\ a[2] = v
             [] flag.FLAG_TYPE = "Args" ->
                   IF v = <<>> THEN a = <<>>
                   ELSE /\ Len(a) = 1 + Len(v)
                        /\ a[1] = flag.FLAG
                        /\ \A i \in 1..Len(v) : a[i + 1] = v[i]
             [] flag.FLAG_TYPE = "Custom" -> a = v

----------------------------------------------------------------------------
(* Properties of Search::handle and Show::handle, under Spec *)

PkgdbFailure(status) ==
    Err("pkgdb exited with status code", <<>>, code_or_minus_one(status))

\* What the render call of the command prints for the results
ExpectedOutput ==
    IF cmd = "search"
    THEN IF opt THEN render_search_results_json(results).out
         ELSE render_search_results_user_facing(search_term, results).out
    ELSE render_show(results, opt).out

\* C4: the failure that carries the engine's exit code is reported only
\* after the render call has returned, with all the output for the results
\* on standard output; the handler reaches the exit-status check only then.
C4_ExitCodeReportedAfterRendering ==
    /\ (ret # None /\ ret[1].msg = "pkgdb exited with status code") =>
           rendered /\ stdout = ExpectedOutput
    /\ pc = "exit_status" => rendered /\ stdout = ExpectedOutput

\* A text search has printed its lines and then failed with the exit code
C4_Witness ==
    /\ pc = "done" /\ cmd = "search" /\ ~opt
    /\ ret = Some(PkgdbFailure(Some(1)))
    /\ Len(stdout) = 2

\* C5 as stated: whenever the engine returned a non-zero exit status, the
\* command ends in the failure that carries the exit code (-1 without a
\* code), for every result sequence, the empty one included.
C5_NonZeroExitAlwaysReported ==
    (pc = "done" /\ exit_status # None /\ ~success(exit_status[1])) =>
        ret = Some(PkgdbFailure(exit_status[1]))

NoMatches ==
    /\ ret # None
    /\ ret[1].tag = "Err"
    /\ ret[1].msg = (IF cmd = "search"
                     THEN "No packages matched this search term"
                     ELSE "no packages matched this search term")
    /\ ret[1].term = search_term

EngineReturnedNothing == pc = "done" /\ exit_status # None /\ results = <<>>

\* C6 as stated: when the engine returns zero results the command fails with
\* the no-matches error naming the search term and writes nothing to
\* standard output, in text search, JSON search and show.
C6_NoMatchesInEveryMode ==
    EngineReturnedNothing => NoMatches /\ stdout = <<>>

\* C6 as amended: when the engine returns zero results, text search and show
\* fail with the no-matches error naming the search term and write nothing
\* to standard output; JSON search reports no no-matches error: it writes
\* the one line "[]" and ends by the exit status alone.
C6_NoMatchesInTextAndShow ==
    EngineReturnedNothing =>
        IF cmd = "search" /\ opt
        THEN /\ stdout = <<<<"[", "]">>>>
             /\ ret = Some(IF success(exit_status[1]) THEN Ok
                           ELSE PkgdbFailure(exit_status[1]))
        ELSE NoMatches /\ stdout = <<>>

\* A text search whose engine call returned nothing has ended with the
\* no-matches error
C6_Witness ==
    /\ EngineReturnedNothing /\ cmd = "search" /\ ~opt
    /\ NoMatches /\ stdout = <<>>

Colons == {i \in 1..Len(search_term) : search_term[i] = ":"}

\* The part of the term that names the package: all of a search term, what
\* follows the last ":" of a show term
PackagePart ==
    IF cmd = "search" \/ Colons = {} THEN search_term
    ELSE SubSeq(search_term, Max(Colons) + 1, Len(search_term))

Malformed ==
    \/ cmd = "show" /\ Cardinality(Colons) >= 2
    \/ PackagePart = <<>>

\* C7: do_search is called only after construct_search_params /
\* construct_show_params has succeeded; a malformed term ends the handler
\* with an error, and a validation error is returned with the engine never
\* invoked and nothing written.
C7_ValidationBeforeEngine ==
    /\ engine_calls > 0 => search_params # None /\ ~Malformed
    /\ (Malformed /\ pc = "done") => ret[1].tag = "Err" /\ engine_calls = 0
    /\ (ret # None /\ ret[1].msg \in {"InvalidQuery", "InvalidSearchTerm"}) =>
           /\ Malformed
           /\ engine_calls = 0 /\ exit_status = None
           /\ stdout = <<>> /\ stderr = <<>>

\* A show term of three segments has been refused before any engine call
C7_Witness ==
    /\ pc = "done" /\ cmd = "show"
    /\ search_term = <<"a", ":", "a", ":", "a">>
    /\ ret = Some(Err("InvalidSearchTerm", search_term, 0))
    /\ engine_calls = 0

\* C8: construct_show_params splits the term on ":".  One segment: it is
\* the package name and there is no input name.  Two segments: they are the
\* input name and the package name, and the query is built from the package
\* name alone.  Three or more: InvalidSearchTerm with the term as given, and
\* no SearchParams.
C8_ShowTermSegments ==
    (cmd = "show" /\ pc \notin {"start", "params"}
        /\ ret # Some(Err("environment", <<>>, 0))) =>
        LET m == show_term_parts(search_term)
            n == Len(search_term)
        IN CASE Cardinality(Colons) = 0 ->
                  /\ m.ret = Ok
                  /\ m.input_name = None
                  /\ m.package_name = Some(search_term)
                  /\ search_params # None =>
                         search_params[1].query.name = search_term
             [] Cardinality(Colons) = 1 ->
                  LET i == CHOOSE k \in Colons : TRUE
                  IN /\ m.ret = Ok
                     /\ m.input_name = Some(SubSeq(search_term, 1, i - 1))
                     /\ m.package_name = Some(SubSeq(search_term, i + 1, n))
                     /\ search_params # None =>
                            search_params[1].query.name =
                                SubSeq(search_term, i + 1, n)
             [] OTHER ->
                  /\ ret = Some(Err("InvalidSearchTerm", search_term, 0))
                  /\ search_params = None

\* The term "aa:a" has given the query "a"
C8_Witness ==
    /\ cmd = "show" /\ pc = "do_search"
    /\ search_term = <<"a", "a", ":", "a">>
    /\ show_term_parts(search_term).input_name = Some(<<"a", "a">>)
    /\ search_params # None
    /\ search_params[1].query.name = <<"a">>

----------------------------------------------------------------------------
(* dedup_and_disambiguate_display_items inside                             *)
(* render_search_results_user_facing: a call of the function on any items, *)
(* or a run of a command                                                   *)

InitSearchDedup == InitDedup \/ Init

\* The call stands alone: it is no step of a running handler
NextSearchDedup == (pc = "idle" /\ NextDedup) \/ Next

SpecSearchDedup == InitSearchDedup /\ [][NextSearchDedup]_vars

\* The display items render_search_results_user_facing makes of the results
ResultItems == [i \in 1..Len(results) |-> to_display_item(results[i])]

DedupFailed ==
    ret # None /\ ret[1].msg = "deduplicating search results failed"

\* C11: dedup_and_disambiguate_display_items returns a non-empty sequence
\* for every non-empty input sequence; so in a text search, once the results
\* are known not to be empty, the items the column width is taken over are
\* not empty, the handler never returns "deduplicating search results
\* failed", and empty results end in the no-matches error, not in that one.
C11_DedupNonEmpty ==
    /\ (deduped_display_items # None /\ display_items # <<>>) =>
           deduped_display_items[1] # <<>>
    /\ ~DedupFailed
    /\ (cmd = "search" /\ ~opt /\ exit_status # None /\ results # <<>>) =>
           /\ dedup_and_disambiguate_display_items(ResultItems) # <<>>
           /\ pc \in {"exit_status", "done"} => rendered /\ stdout # <<>>
    /\ (cmd = "search" /\ ~opt /\ EngineReturnedNothing) => NoMatches

\* A text search whose two results are one (package, input) pair has passed
\* the empty-results check and printed one line
C11_Witness ==
    /\ cmd = "search" /\ ~opt /\ pc = "exit_status"
    /\ Len(results) = 2
    /\ results[1] = results[2]
    /\ Len(stdout) = 1
    /\ rendered

====
